---- MODULE Spec2Model ----
(***************************************************************************)
(* Options strategy scan API (src/unnamed/part_000): the strike ladder,    *)
(* the expiration calendar, the quote fetch, the option pricing, the       *)
(* strategy synthesizer and the request handler with its risk filter.      *)
(*                                                                         *)
(* Numbers.  Money (spot, strikes, premiums, credits) is held in mills,    *)
(* 1/1000 of a currency unit, so 2.5 is 2500 and the 0.05 floor is 50.     *)
(* maxProfit, maxLoss and capitalRequired are whole numbers, as the code   *)
(* rounds them (Math.round(x * 100)).  Confidence is held in tenths of a   *)
(* percent point (72.5 is 725).  Time is held in hours since 2026-01-01    *)
(* 00:00 UTC.  A JavaScript number that is NaN, and the value undefined,   *)
(* are the two reserved values NaN and Undefined; every arithmetic step    *)
(* and comparison the code makes on a value that can be one of them goes   *)
(* through the operators below, which follow IEEE/ECMAScript: arithmetic   *)
(* on NaN or undefined gives NaN, every comparison with NaN is false.      *)
(***************************************************************************)
EXTENDS Integers, Sequences, FiniteSets, TLC

VARIABLES
    pc,             \* position of the running call (handler or function)
    req,            \* the request: method, body, ticker, riskProfile, minDte, maxDte, maxStrategies
    env,            \* the process environment: apiKey, clock (now), time zone (tz)
    currentPrice,   \* spot price (mills)
    strikes,        \* generateStrikes' result
    picks,          \* the strikes generateStrategies selects for its legs
    expirations,    \* getExpirationDates' result
    dte,            \* generateStrategies' dte (line 59)
    allStrategies,  \* generateStrategies' result
    strategies,     \* the filtered, sorted, sliced list
    responses,      \* the responses sent on res, in order
    calls           \* how often fetchLiveStockPrice and generateStrategies were invoked

vars == <<pc, req, env, currentPrice, strikes, picks, expirations, dte,
          allStrategies, strategies, responses, calls>>

----------------------------------------------------------------------------
(* JavaScript numbers that may be NaN or undefined *)

NaN == -(2^30)
Undefined == -(2^30) - 1

IsNum(x) == x # NaN /\ x # Undefined
Add(a, b) == IF IsNum(a) /\ IsNum(b) THEN a + b ELSE NaN
Sub(a, b) == IF IsNum(a) /\ IsNum(b) THEN a - b ELSE NaN
Neg(a) == IF IsNum(a) THEN -a ELSE NaN
Lt(a, b) == IsNum(a) /\ IsNum(b) /\ a < b
Gt(a, b) == IsNum(a) /\ IsNum(b) /\ a > b
Le(a, b) == IsNum(a) /\ IsNum(b) /\ a <= b
Ge(a, b) == IsNum(a) /\ IsNum(b) /\ a >= b
MathAbs(a) == IF IsNum(a) THEN (IF a < 0 THEN -a ELSE a) ELSE NaN
\* Math.max: NaN if either argument is NaN
MathMax(a, b) == IF IsNum(a) /\ IsNum(b) THEN (IF a >= b THEN a ELSE b) ELSE NaN
\* Math.round(p / q) for q > 0: the nearest integer, halves towards +infinity
MathRoundDiv(p, q) == IF IsNum(p) THEN (2 * p + q) \div (2 * q) ELSE NaN
\* a value is falsy in `a || b` when it is undefined, NaN or 0
Falsy(a) == a = Undefined \/ a = NaN \/ a = 0
Or(a, b) == IF Falsy(a) THEN b ELSE a

Min(a, b) == IF a <= b THEN a ELSE b
Max(a, b) == IF a >= b THEN a ELSE b

\* Array.prototype.sort((a, b) => a - b): ascending, stable (insertion from the left)
RECURSIVE InsertAsc(_, _)
InsertAsc(s, e) ==
    IF s = <<>> THEN <<e>>
    ELSE IF e < Head(s) THEN <<e>> \o s
    ELSE <<Head(s)>> \o InsertAsc(Tail(s), e)

RECURSIVE SortAsc(_)
SortAsc(s) ==
    IF s = <<>> THEN <<>>
    ELSE InsertAsc(SortAsc(SubSeq(s, 1, Len(s) - 1)), s[Len(s)])

\* Array.prototype.find over the indexes in hit: the first such element, else undefined
FirstOf(s, hit) ==
    IF hit = {} THEN Undefined
    ELSE s[CHOOSE i \in hit : \A j \in hit : i <= j]

\* strikes.find(s => s < num / den): num / den is a product such as currentPrice * 0.93
FindBelow(s, num, den) ==
    FirstOf(s, {i \in 1..Len(s) : IsNum(num) /\ den * s[i] < num})

\* strikes.find(s => s > num / den)
FindAbove(s, num, den) ==
    FirstOf(s, {i \in 1..Len(s) : IsNum(num) /\ den * s[i] > num})

\* strikes.find(s => Math.abs(s - x) < d)
FindNear(s, x, d) ==
    FirstOf(s, {i \in 1..Len(s) : Lt(MathAbs(Sub(s[i], x)), d)})

\* s[i] with JavaScript's 0-based index: undefined past the end
At(s, i) == IF i >= 0 /\ i < Len(s) THEN s[i + 1] ELSE Undefined

----------------------------------------------------------------------------
(* generateStrikes, lines 438-461 *)

StrikeInterval(price) ==
    IF price < 50000 THEN 2500
    ELSE IF price < 100000 THEN 5000
    ELSE IF price < 200000 THEN 5000
    ELSE IF price < 500000 THEN 10000
    ELSE 25000

baseStrike(price) == MathRoundDiv(price, StrikeInterval(price)) * StrikeInterval(price)

LadderSteps == 6

\* the positivity test written as strike >= 0, which keeps a strike of 0
StrikeKeptNonNegative(strike) == strike >= 0

StrikeKept(strike) == strike > 0

generateStrikes(price) ==
    LET interval == StrikeInterval(price)
        cand == [k \in 1..(2 * LadderSteps + 1) |->
                    baseStrike(price) + (k - LadderSteps - 1) * interval]
        kept == SelectSeq(cand, StrikeKept)
    IN  SortAsc(kept)

----------------------------------------------------------------------------
(* generateStrategies' strike selection: strikes.find(predicate) || strikes[index] *)

\* the fallback taken at index 6, past the end of a six-strike ladder
bullPutShortStrikeHighIndex(price, ks) == Or(FindBelow(ks, 93 * price, 100), At(ks, 6))

\* line 67 (and 123): s < currentPrice * 0.93
bullPutShortStrike(price, ks) == Or(FindBelow(ks, 93 * price, 100), At(ks, 2))
\* line 68 (and 124): s < short - 10
bullPutLongStrike(price, ks) ==
    Or(FindBelow(ks, Sub(bullPutShortStrike(price, ks), 10000), 1), At(ks, 1))
\* line 121: s > currentPrice * 1.07
icCallShortStrike(price, ks) == Or(FindAbove(ks, 107 * price, 100), At(ks, 6))
\* line 122: s > short + 10
icCallLongStrike(price, ks) ==
    Or(FindAbove(ks, Add(icCallShortStrike(price, ks), 10000), 1), At(ks, 7))
icPutShortStrike(price, ks) == Or(FindBelow(ks, 93 * price, 100), At(ks, 2))
icPutLongStrike(price, ks) ==
    Or(FindBelow(ks, Sub(icPutShortStrike(price, ks), 10000), 1), At(ks, 1))
\* line 162: s < currentPrice * 0.95
cspStrike(price, ks) == Or(FindBelow(ks, 95 * price, 100), At(ks, 3))
\* line 191: Math.abs(s - currentPrice) < 5
straddleStrike(price, ks) == Or(FindNear(ks, price, 5000), At(ks, 4))
\* line 222: s > currentPrice * 1.05
ccStrike(price, ks) == Or(FindAbove(ks, 105 * price, 100), At(ks, 6))
\* line 248: s > currentPrice * 1.02
bearCallShortStrike(price, ks) == Or(FindAbove(ks, 102 * price, 100), At(ks, 5))
\* line 249: s > short + 10
bearCallLongStrike(price, ks) ==
    Or(FindAbove(ks, Add(bearCallShortStrike(price, ks), 10000), 1), At(ks, 6))
\* line 299
bullCallLongStrike(price, ks) == Or(FindAbove(ks, 102 * price, 100), At(ks, 5))
\* line 300: s > long + 10
bullCallShortStrike(price, ks) ==
    Or(FindAbove(ks, Add(bullCallLongStrike(price, ks), 10000), 1), At(ks, 6))

SelectStrikes(price, ks) ==
    [ bullPutShortStrike  |-> bullPutShortStrike(price, ks),
      bullPutLongStrike   |-> bullPutLongStrike(price, ks),
      icCallShortStrike   |-> icCallShortStrike(price, ks),
      icCallLongStrike    |-> icCallLongStrike(price, ks),
      icPutShortStrike    |-> icPutShortStrike(price, ks),
      icPutLongStrike     |-> icPutLongStrike(price, ks),
      cspStrike           |-> cspStrike(price, ks),
      straddleStrike      |-> straddleStrike(price, ks),
      ccStrike            |-> ccStrike(price, ks),
      bearCallShortStrike |-> bearCallShortStrike(price, ks),
      bearCallLongStrike  |-> bearCallLongStrike(price, ks),
      bullCallLongStrike  |-> bullCallLongStrike(price, ks),
      bullCallShortStrike |-> bullCallShortStrike(price, ks) ]

----------------------------------------------------------------------------
(* Dates.  An instant is a number of hours since 2026-01-01 00:00 UTC; the  *)
(* process's time zone tz is its offset from UTC in hours (local = UTC+tz, *)
(* no daylight saving change inside the window).  A day number counts days *)
(* since 2026-01-01; a date string "YYYY-MM-DD" is the record [y, m, d].   *)

HoursPerDay == 24
DaysPerWeek == 7
\* getDay() of 2026-01-01, a Thursday (0 is Sunday)
EpochWeekday == 4
\* getDay() value of Friday, lines 409 and 424
Friday == 5

\* the months of 2026 and 2027
MonthLengths == <<31, 28, 31, 30, 31, 30, 31, 31, 30, 31, 30, 31,
                  31, 28, 31, 30, 31, 30, 31, 31, 30, 31, 30, 31>>

RECURSIVE MonthStart(_)
\* day number of the first day of month index mi (0 is January 2026)
MonthStart(mi) == IF mi = 0 THEN 0 ELSE MonthStart(mi - 1) + MonthLengths[mi]

\* month index of a day number
MonthIndex(day) ==
    CHOOSE mi \in 0..(Len(MonthLengths) - 1) :
        MonthStart(mi) <= day /\ day < MonthStart(mi) + MonthLengths[mi + 1]

\* Date.prototype.getDay of a day number
Weekday(day) == (day + EpochWeekday) % DaysPerWeek

\* while (expDate.getDay() !== 5) expDate.setDate(expDate.getDate() + 1)
RECURSIVE NextFriday(_)
NextFriday(day) == IF Weekday(day) = Friday THEN day ELSE NextFriday(day + 1)

\* expDate.toISOString().split('T')[0]: the UTC calendar date of an instant
ISODate(instant) ==
    LET day == instant \div HoursPerDay
        mi == MonthIndex(day)
    IN  [y |-> 2026 + (mi \div 12), m |-> (mi % 12) + 1, d |-> day - MonthStart(mi) + 1]

\* day number of a date string
DayOfDate(date) == MonthStart((date.y - 2026) * 12 + date.m - 1) + date.d - 1

\* new Date("YYYY-MM-DD").getTime(): UTC midnight of that date
ParseDate(date) == DayOfDate(date) * HoursPerDay

\* Math.floor((a.getTime() - b.getTime()) / (1000 * 60 * 60 * 24))
WholeDays(a, b) == (a - b) \div HoursPerDay

----------------------------------------------------------------------------
(* getExpirationDates, lines 399-435 *)

WeeklyCount == 12
MonthlyCount == 3
MaxExpirations == 3

\* lines 405-411: today + weeks * 7 days, then forward to a Friday, local clock kept
WeeklyExpDate(now, tz, weeks) ==
    LET local == now + tz
        day == NextFriday((local \div HoursPerDay) + weeks * DaysPerWeek)
    IN  day * HoursPerDay + (local % HoursPerDay) - tz

\* lines 421-426: local midnight of the 15th of the month `months` ahead, then
\* forward to a Friday
MonthlyExpDate(now, tz, months) ==
    LET local == now + tz
        mi == MonthIndex(local \div HoursPerDay) + months
        day == NextFriday(MonthStart(mi) + 14)
    IN  day * HoursPerDay - tz

\* lines 413-416 and 428-431
DteInWindow(d, minDte, maxDte) == d >= minDte /\ d <= maxDte

\* the candidates in generation order: weekly before monthly
ExpCandidates(now, tz) ==
    [k \in 1..(WeeklyCount + MonthlyCount) |->
        IF k <= WeeklyCount THEN WeeklyExpDate(now, tz, k)
        ELSE MonthlyExpDate(now, tz, k - WeeklyCount)]

KeepExpDate(expDate, now, minDte, maxDte) ==
    DteInWindow(WholeDays(expDate, now), minDte, maxDte)

RECURSIVE FilterExpDates(_, _, _, _)
FilterExpDates(cands, now, minDte, maxDte) ==
    IF cands = <<>> THEN <<>>
    ELSE (IF KeepExpDate(Head(cands), now, minDte, maxDte)
          THEN <<ISODate(Head(cands))>> ELSE <<>>)
         \o FilterExpDates(Tail(cands), now, minDte, maxDte)

\* dates.slice(0, 3)
getExpirationDates(minDte, maxDte, now, tz) ==
    LET dates == FilterExpDates(ExpCandidates(now, tz), now, minDte, maxDte)
    IN  SubSeq(dates, 1, Min(Len(dates), MaxExpirations))

\* lines 58-59: dte from the first date; new Date(undefined) is an invalid date
primaryDte(exps, now) ==
    IF exps = <<>> THEN NaN ELSE WholeDays(ParseDate(exps[1]), now)

----------------------------------------------------------------------------
(* fetchLiveStockPrice, lines 353-396.  A Math.random() draw is a number   *)
(* of thousandths, 0..999.                                                 *)

\* lines 359-370
mockPrices ==
    [t \in {"AAPL", "SPY", "TSLA", "MSFT", "NVDA", "META", "GOOGL", "AMZN", "QQQ", "AMD"} |->
        CASE t = "AAPL" -> 237880 [] t = "SPY" -> 590250 [] t = "TSLA" -> 248500
          [] t = "MSFT" -> 425320 [] t = "NVDA" -> 138450 [] t = "META" -> 563120
          [] t = "GOOGL" -> 175280 [] t = "AMZN" -> 197850 [] t = "QQQ" -> 515750
          [] t = "AMD" -> 120330]

\* mockPrices[ticker]: undefined for a ticker that is no key of the table
MockPrice(ticker) == IF ticker \in DOMAIN mockPrices THEN mockPrices[ticker] ELSE Undefined

\* 100 + Math.random() * 200, lines 371 and 394
RandomPrice(r) == 100000 + r * 200

\* the catch block, lines 391-395
ProviderErrorPrice(ticker, r) == RandomPrice(r)

\* provider is what the quote provider does when called: "ok" (an OK response
\* whose results[0].c is close), "http_error" (response.ok false),
\* "no_results" (no data.results[0]) or "network_error" (fetch rejects)
fetchLiveStockPrice(ticker, apiKey, provider, close, r) ==
    IF ~apiKey THEN Or(MockPrice(ticker), RandomPrice(r))
    ELSE IF provider = "ok" THEN close
    ELSE ProviderErrorPrice(ticker, r)

----------------------------------------------------------------------------
(* calculateOptionPrice, lines 464-526 (riskFreeRate is 0.05 at every call) *)
(*                                                                         *)
(* The closed-form value of lines 486-505 (logarithm, exponential, square  *)
(* root and the erf polynomial of lines 529-544) is tabulated: BSRows      *)
(* holds <<S, K, days, volatility, isCall, value>> with S, K and value in  *)
(* mills and volatility in thousandths, value being the `price` of lines   *)
(* 500/503 evaluated in IEEE double arithmetic and rounded to the nearest  *)
(* mill, for every argument the specifications below reach.  The greeks    *)
(* are not modelled: they are copied into the result and read by no guard. *)

BSRows ==
    {
      <<1000, 2500, 6, 350, TRUE, 0>>, <<1000, 2500, 6, 400, FALSE, 1498>>, <<1000, 2500, 6, 400, TRUE, 0>>,
      <<1000, 2500, 6, 425, TRUE, 0>>, <<1000, 2500, 6, 475, FALSE, 1498>>, <<1000, 2500, 6, 475, TRUE, 0>>,
      <<1000, 2500, 9, 350, TRUE, 0>>, <<1000, 2500, 9, 400, FALSE, 1497>>, <<1000, 2500, 9, 400, TRUE, 0>>,
      <<1000, 2500, 9, 425, TRUE, 0>>, <<1000, 2500, 9, 475, FALSE, 1497>>, <<1000, 2500, 9, 475, TRUE, 0>>,
      <<1000, 2500, 30, 350, TRUE, 0>>, <<1000, 2500, 30, 400, FALSE, 1490>>, <<1000, 2500, 30, 400, TRUE, 0>>,
      <<1000, 2500, 30, 425, TRUE, 0>>, <<1000, 2500, 30, 475, FALSE, 1490>>, <<1000, 2500, 30, 475, TRUE, 0>>,
      <<1000, 2500, 34, 350, TRUE, 0>>, <<1000, 2500, 34, 400, FALSE, 1488>>, <<1000, 2500, 34, 400, TRUE, 0>>,
      <<1000, 2500, 34, 425, TRUE, 0>>, <<1000, 2500, 34, 475, FALSE, 1488>>, <<1000, 2500, 34, 475, TRUE, 0>>,
      <<1000, 5000, 6, 350, FALSE, 3996>>, <<1000, 5000, 6, 425, FALSE, 3996>>, <<1000, 5000, 9, 350, FALSE, 3994>>,
      <<1000, 5000, 9, 425, FALSE, 3994>>, <<1000, 5000, 30, 350, FALSE, 3979>>, <<1000, 5000, 30, 425, FALSE, 3979>>,
      <<1000, 5000, 34, 350, FALSE, 3977>>, <<1000, 5000, 34, 425, FALSE, 3977>>, <<1000, 7500, 6, 350, FALSE, 6494>>,
      <<1000, 7500, 6, 425, FALSE, 6494>>, <<1000, 7500, 9, 350, FALSE, 6491>>, <<1000, 7500, 9, 425, FALSE, 6491>>,
      <<1000, 7500, 30, 350, FALSE, 6469>>, <<1000, 7500, 30, 425, FALSE, 6469>>, <<1000, 7500, 34, 350, FALSE, 6465>>,
      <<1000, 7500, 34, 425, FALSE, 6465>>, <<1000, 10000, 6, 350, FALSE, 8992>>, <<1000, 10000, 6, 425, FALSE, 8992>>,
      <<1000, 10000, 9, 350, FALSE, 8988>>, <<1000, 10000, 9, 425, FALSE, 8988>>, <<1000, 10000, 30, 350, FALSE, 8959>>,
      <<1000, 10000, 30, 425, FALSE, 8959>>, <<1000, 10000, 34, 350, FALSE, 8954>>, <<1000, 10000, 34, 425, FALSE, 8954>>,
      <<1000, 15000, 6, 350, TRUE, 0>>, <<1000, 15000, 6, 425, TRUE, 0>>, <<1000, 15000, 9, 350, TRUE, 0>>,
      <<1000, 15000, 9, 425, TRUE, 0>>, <<1000, 15000, 30, 350, TRUE, 0>>, <<1000, 15000, 30, 425, TRUE, 0>>,
      <<1000, 15000, 34, 350, TRUE, 0>>, <<1000, 15000, 34, 425, TRUE, 0>>, <<40000, 25000, 6, 350, FALSE, 0>>,
      <<40000, 25000, 6, 425, FALSE, 0>>, <<40000, 25000, 9, 350, FALSE, 0>>, <<40000, 25000, 9, 425, FALSE, 0>>,
      <<40000, 25000, 30, 350, FALSE, 0>>, <<40000, 25000, 30, 425, FALSE, 0>>, <<40000, 25000, 34, 350, FALSE, 0>>,
      <<40000, 25000, 34, 425, FALSE, 0>>, <<40000, 27500, 6, 350, FALSE, 0>>, <<40000, 27500, 6, 425, FALSE, 0>>,
      <<40000, 27500, 9, 350, FALSE, 0>>, <<40000, 27500, 9, 425, FALSE, 0>>, <<40000, 27500, 30, 350, FALSE, 0>>,
      <<40000, 27500, 30, 425, FALSE, 1>>, <<40000, 27500, 34, 350, FALSE, 0>>, <<40000, 27500, 34, 425, FALSE, 2>>,
      <<40000, 37500, 6, 400, FALSE, 95>>, <<40000, 37500, 6, 400, TRUE, 2626>>, <<40000, 37500, 6, 475, FALSE, 170>>,
      <<40000, 37500, 6, 475, TRUE, 2701>>, <<40000, 37500, 9, 400, FALSE, 185>>, <<40000, 37500, 9, 400, TRUE, 2731>>,
      <<40000, 37500, 9, 475, FALSE, 300>>, <<40000, 37500, 9, 475, TRUE, 2846>>, <<40000, 37500, 30, 400, FALSE, 749>>,
      <<40000, 37500, 30, 400, TRUE, 3402>>, <<40000, 37500, 30, 475, FALSE, 1033>>, <<40000, 37500, 30, 475, TRUE, 3687>>,
      <<40000, 37500, 34, 400, FALSE, 839>>, <<40000, 37500, 34, 400, TRUE, 3513>>, <<40000, 37500, 34, 475, FALSE, 1146>>,
      <<40000, 37500, 34, 475, TRUE, 3820>>, <<40000, 42500, 6, 350, TRUE, 79>>, <<40000, 42500, 6, 425, TRUE, 155>>,
      <<40000, 42500, 9, 350, TRUE, 161>>, <<40000, 42500, 9, 425, TRUE, 281>>, <<40000, 42500, 30, 350, TRUE, 738>>,
      <<40000, 42500, 30, 425, TRUE, 1048>>, <<40000, 42500, 34, 350, TRUE, 837>>, <<40000, 42500, 34, 425, TRUE, 1171>>,
      <<40000, 45000, 6, 350, TRUE, 3>>, <<40000, 45000, 6, 425, TRUE, 13>>, <<40000, 45000, 9, 350, TRUE, 14>>,
      <<40000, 45000, 9, 425, TRUE, 46>>, <<40000, 45000, 30, 350, TRUE, 273>>, <<40000, 45000, 30, 425, TRUE, 487>>,
      <<40000, 45000, 34, 350, TRUE, 336>>, <<40000, 45000, 34, 425, TRUE, 579>>, <<40000, 55000, 6, 350, TRUE, 0>>,
      <<40000, 55000, 6, 425, TRUE, 0>>, <<40000, 55000, 9, 350, TRUE, 0>>, <<40000, 55000, 9, 425, TRUE, 0>>,
      <<40000, 55000, 30, 350, TRUE, 1>>, <<40000, 55000, 30, 425, TRUE, 9>>, <<40000, 55000, 34, 350, TRUE, 2>>,
      <<40000, 55000, 34, 425, TRUE, 16>>, <<100000, 70000, 6, 350, FALSE, 0>>, <<100000, 70000, 6, 425, FALSE, 0>>,
      <<100000, 70000, 9, 350, FALSE, 0>>, <<100000, 70000, 9, 425, FALSE, 0>>, <<100000, 70000, 30, 350, FALSE, 0>>,
      <<100000, 70000, 30, 425, FALSE, 4>>, <<100000, 70000, 34, 350, FALSE, 1>>, <<100000, 70000, 34, 425, FALSE, 9>>,
      <<100000, 75000, 6, 350, FALSE, 0>>, <<100000, 75000, 6, 425, FALSE, 0>>, <<100000, 75000, 9, 350, FALSE, 0>>,
      <<100000, 75000, 9, 425, FALSE, 0>>, <<100000, 75000, 30, 350, FALSE, 5>>, <<100000, 75000, 30, 425, FALSE, 29>>,
      <<100000, 75000, 34, 350, FALSE, 9>>, <<100000, 75000, 34, 425, FALSE, 47>>, <<100000, 100000, 6, 400, FALSE, 2004>>,
      <<100000, 100000, 6, 400, TRUE, 2086>>, <<100000, 100000, 6, 475, FALSE, 2387>>, <<100000, 100000, 6, 475, TRUE, 2470>>,
      <<100000, 100000, 9, 400, FALSE, 2443>>, <<100000, 100000, 9, 400, TRUE, 2566>>, <<100000, 100000, 9, 475, FALSE, 2912>>,
      <<100000, 100000, 9, 475, TRUE, 3035>>, <<100000, 100000, 30, 400, FALSE, 4361>>, <<100000, 100000, 30, 400, TRUE, 4771>>,
      <<100000, 100000, 30, 475, FALSE, 5215>>, <<100000, 100000, 30, 475, TRUE, 5625>>, <<100000, 100000, 34, 400, FALSE, 4627>>,
      <<100000, 100000, 34, 400, TRUE, 5092>>, <<100000, 100000, 34, 475, FALSE, 5536>>, <<100000, 100000, 34, 475, TRUE, 6000>>,
      <<100000, 105000, 6, 350, TRUE, 335>>, <<100000, 105000, 6, 425, TRUE, 581>>, <<100000, 105000, 9, 350, TRUE, 602>>,
      <<100000, 105000, 9, 425, TRUE, 955>>, <<100000, 105000, 30, 350, TRUE, 2207>>, <<100000, 105000, 30, 425, TRUE, 3014>>,
      <<100000, 105000, 34, 350, TRUE, 2466>>, <<100000, 105000, 34, 425, TRUE, 3334>>, <<100000, 110000, 6, 350, TRUE, 30>>,
      <<100000, 110000, 6, 425, TRUE, 96>>, <<100000, 110000, 9, 350, TRUE, 102>>, <<100000, 110000, 9, 425, TRUE, 251>>,
      <<100000, 110000, 30, 350, TRUE, 1037>>, <<100000, 110000, 30, 425, TRUE, 1675>>, <<100000, 110000, 34, 350, TRUE, 1231>>,
      <<100000, 110000, 34, 425, TRUE, 1941>>, <<100000, 120000, 6, 350, TRUE, 0>>, <<100000, 120000, 6, 425, TRUE, 1>>,
      <<100000, 120000, 9, 350, TRUE, 1>>, <<100000, 120000, 9, 425, TRUE, 7>>, <<100000, 120000, 30, 350, TRUE, 166>>,
      <<100000, 120000, 30, 425, TRUE, 424>>, <<100000, 120000, 34, 350, TRUE, 233>>, <<100000, 120000, 34, 425, TRUE, 555>>,
      <<100000, 125000, 6, 350, TRUE, 0>>, <<100000, 125000, 6, 425, TRUE, 0>>, <<100000, 125000, 9, 350, TRUE, 0>>,
      <<100000, 125000, 9, 425, TRUE, 1>>, <<100000, 125000, 30, 350, TRUE, 57>>, <<100000, 125000, 30, 425, TRUE, 195>>,
      <<100000, 125000, 34, 350, TRUE, 89>>, <<100000, 125000, 34, 425, TRUE, 274>>, <<150000, 120000, 6, 350, FALSE, 0>>,
      <<150000, 120000, 6, 425, FALSE, 0>>, <<150000, 120000, 9, 350, FALSE, 0>>, <<150000, 120000, 9, 425, FALSE, 1>>,
      <<150000, 120000, 30, 350, FALSE, 54>>, <<150000, 120000, 30, 425, FALSE, 197>>, <<150000, 120000, 34, 350, FALSE, 84>>,
      <<150000, 120000, 34, 425, FALSE, 276>>, <<150000, 125000, 6, 350, FALSE, 0>>, <<150000, 125000, 6, 425, FALSE, 1>>,
      <<150000, 125000, 9, 350, FALSE, 1>>, <<150000, 125000, 9, 425, FALSE, 8>>, <<150000, 125000, 30, 350, FALSE, 169>>,
      <<150000, 125000, 30, 425, FALSE, 455>>, <<150000, 125000, 34, 350, FALSE, 236>>, <<150000, 125000, 34, 425, FALSE, 592>>,
      <<150000, 150000, 6, 400, FALSE, 3006>>, <<150000, 150000, 6, 400, TRUE, 3129>>, <<150000, 150000, 6, 475, FALSE, 3581>>,
      <<150000, 150000, 6, 475, TRUE, 3704>>, <<150000, 150000, 9, 400, FALSE, 3664>>, <<150000, 150000, 9, 400, TRUE, 3849>>,
      <<150000, 150000, 9, 475, FALSE, 4368>>, <<150000, 150000, 9, 475, TRUE, 4553>>, <<150000, 150000, 30, 400, FALSE, 6541>>,
      <<150000, 150000, 30, 400, TRUE, 7157>>, <<150000, 150000, 30, 475, FALSE, 7822>>, <<150000, 150000, 30, 475, TRUE, 8437>>,
      <<150000, 150000, 34, 400, FALSE, 6941>>, <<150000, 150000, 34, 400, TRUE, 7638>>, <<150000, 150000, 34, 475, FALSE, 8304>>,
      <<150000, 150000, 34, 475, TRUE, 9001>>, <<150000, 155000, 6, 350, TRUE, 957>>, <<150000, 155000, 6, 425, TRUE, 1431>>,
      <<150000, 155000, 9, 350, TRUE, 1473>>, <<150000, 155000, 9, 425, TRUE, 2097>>, <<150000, 155000, 30, 350, TRUE, 4154>>,
      <<150000, 155000, 30, 425, TRUE, 5414>>, <<150000, 155000, 34, 350, TRUE, 4564>>, <<150000, 155000, 34, 425, TRUE, 5912>>,
      <<150000, 160000, 6, 350, TRUE, 244>>, <<150000, 160000, 6, 425, TRUE, 504>>, <<150000, 160000, 9, 350, TRUE, 526>>,
      <<150000, 160000, 9, 425, TRUE, 948>>, <<150000, 160000, 30, 350, TRUE, 2605>>, <<150000, 160000, 30, 425, TRUE, 3746>>,
      <<150000, 160000, 34, 350, TRUE, 2965>>, <<150000, 160000, 34, 425, TRUE, 4204>>, <<150000, 165000, 6, 350, TRUE, 45>>,
      <<150000, 165000, 6, 425, TRUE, 144>>, <<150000, 165000, 9, 350, TRUE, 154>>, <<150000, 165000, 9, 425, TRUE, 376>>,
      <<150000, 165000, 30, 350, TRUE, 1555>>, <<150000, 165000, 30, 425, TRUE, 2513>>, <<150000, 165000, 34, 350, TRUE, 1847>>,
      <<150000, 165000, 34, 425, TRUE, 2911>>, <<150000, 170000, 6, 350, TRUE, 6>>, <<150000, 170000, 6, 425, TRUE, 34>>,
      <<150000, 170000, 9, 350, TRUE, 37>>, <<150000, 170000, 9, 425, TRUE, 131>>, <<150000, 170000, 30, 350, TRUE, 885>>,
      <<150000, 170000, 30, 425, TRUE, 1636>>, <<150000, 170000, 34, 350, TRUE, 1103>>, <<150000, 170000, 34, 425, TRUE, 1965>>,
      <<150000, 180000, 6, 350, TRUE, 0>>, <<150000, 180000, 6, 425, TRUE, 1>>, <<150000, 180000, 9, 350, TRUE, 1>>,
      <<150000, 180000, 9, 425, TRUE, 11>>, <<150000, 180000, 30, 350, TRUE, 249>>, <<150000, 180000, 30, 425, TRUE, 636>>,
      <<150000, 180000, 34, 350, TRUE, 350>>, <<150000, 180000, 34, 425, TRUE, 832>>, <<237880, 180000, 6, 350, FALSE, 0>>,
      <<237880, 180000, 6, 425, FALSE, 0>>, <<237880, 180000, 9, 350, FALSE, 0>>, <<237880, 180000, 9, 425, FALSE, 0>>,
      <<237880, 180000, 30, 350, FALSE, 15>>, <<237880, 180000, 30, 425, FALSE, 86>>, <<237880, 180000, 34, 350, FALSE, 27>>,
      <<237880, 180000, 34, 425, FALSE, 136>>, <<237880, 190000, 6, 350, FALSE, 0>>, <<237880, 190000, 6, 425, FALSE, 0>>,
      <<237880, 190000, 9, 350, FALSE, 0>>, <<237880, 190000, 9, 425, FALSE, 1>>, <<237880, 190000, 30, 350, FALSE, 82>>,
      <<237880, 190000, 30, 425, FALSE, 302>>, <<237880, 190000, 34, 350, FALSE, 128>>, <<237880, 190000, 34, 425, FALSE, 424>>,
      <<237880, 240000, 6, 400, FALSE, 5908>>, <<237880, 240000, 6, 400, TRUE, 3985>>, <<237880, 240000, 6, 475, FALSE, 6814>>,
      <<237880, 240000, 6, 475, TRUE, 4891>>, <<237880, 240000, 9, 400, FALSE, 6939>>, <<237880, 240000, 9, 400, TRUE, 5115>>,
      <<237880, 240000, 9, 475, FALSE, 8053>>, <<237880, 240000, 9, 475, TRUE, 6229>>, <<237880, 240000, 30, 400, FALSE, 11480>>,
      <<237880, 240000, 30, 400, TRUE, 10344>>, <<237880, 240000, 30, 475, FALSE, 13520>>, <<237880, 240000, 30, 475, TRUE, 12384>>,
      <<237880, 240000, 34, 400, FALSE, 12112>>, <<237880, 240000, 34, 400, TRUE, 11107>>, <<237880, 240000, 34, 475, FALSE, 14283>>,
      <<237880, 240000, 34, 475, TRUE, 13278>>, <<237880, 250000, 6, 350, TRUE, 767>>, <<237880, 250000, 6, 425, TRUE, 1341>>,
      <<237880, 250000, 9, 350, TRUE, 1390>>, <<237880, 250000, 9, 425, TRUE, 2222>>, <<237880, 250000, 30, 350, TRUE, 5180>>,
      <<237880, 250000, 30, 425, TRUE, 7095>>, <<237880, 250000, 34, 350, TRUE, 5794>>, <<237880, 250000, 34, 425, TRUE, 7855>>,
      <<237880, 260000, 6, 350, TRUE, 104>>, <<237880, 260000, 6, 425, TRUE, 303>>, <<237880, 260000, 9, 350, TRUE, 321>>,
      <<237880, 260000, 9, 425, TRUE, 733>>, <<237880, 260000, 30, 350, TRUE, 2760>>, <<237880, 260000, 30, 425, TRUE, 4345>>,
      <<237880, 260000, 34, 350, TRUE, 3247>>, <<237880, 260000, 34, 425, TRUE, 4998>>, <<237880, 270000, 6, 350, TRUE, 9>>,
      <<237880, 270000, 6, 425, TRUE, 49>>, <<237880, 270000, 9, 350, TRUE, 54>>, <<237880, 270000, 9, 425, TRUE, 197>>,
      <<237880, 270000, 30, 350, TRUE, 1362>>, <<237880, 270000, 30, 425, TRUE, 2536>>, <<237880, 270000, 34, 350, TRUE, 1703>>,
      <<237880, 270000, 34, 425, TRUE, 3052>>, <<237880, 280000, 6, 350, TRUE, 0>>, <<237880, 280000, 6, 425, TRUE, 6>>,
      <<237880, 280000, 9, 350, TRUE, 7>>, <<237880, 280000, 9, 425, TRUE, 43>>, <<237880, 280000, 30, 350, TRUE, 624>>,
      <<237880, 280000, 30, 425, TRUE, 1414>>, <<237880, 280000, 34, 350, TRUE, 838>>, <<237880, 280000, 34, 425, TRUE, 1792>>,
      <<600000, 450000, 6, 350, FALSE, 0>>, <<600000, 450000, 6, 425, FALSE, 0>>, <<600000, 450000, 9, 350, FALSE, 0>>,
      <<600000, 450000, 9, 425, FALSE, 0>>, <<600000, 450000, 30, 350, FALSE, 27>>, <<600000, 450000, 30, 425, FALSE, 174>>,
      <<600000, 450000, 34, 350, FALSE, 52>>, <<600000, 450000, 34, 425, FALSE, 281>>, <<600000, 475000, 6, 350, FALSE, 0>>,
      <<600000, 475000, 6, 425, FALSE, 0>>, <<600000, 475000, 9, 350, FALSE, 0>>, <<600000, 475000, 9, 425, FALSE, 2>>,
      <<600000, 475000, 30, 350, FALSE, 159>>, <<600000, 475000, 30, 425, FALSE, 627>>, <<600000, 475000, 34, 350, FALSE, 254>>,
      <<600000, 475000, 34, 425, FALSE, 897>>, <<600000, 600000, 6, 400, FALSE, 12025>>, <<600000, 600000, 6, 400, TRUE, 12518>>,
      <<600000, 600000, 6, 475, FALSE, 14324>>, <<600000, 600000, 6, 475, TRUE, 14817>>, <<600000, 600000, 9, 400, FALSE, 14656>>,
      <<600000, 600000, 9, 400, TRUE, 15396>>, <<600000, 600000, 9, 475, FALSE, 17471>>, <<600000, 600000, 9, 475, TRUE, 18211>>,
      <<600000, 600000, 30, 400, FALSE, 26166>>, <<600000, 600000, 30, 400, TRUE, 28626>>, <<600000, 600000, 30, 475, FALSE, 31289>>,
      <<600000, 600000, 30, 475, TRUE, 33750>>, <<600000, 600000, 34, 400, FALSE, 27764>>, <<600000, 600000, 34, 400, TRUE, 30552>>,
      <<600000, 600000, 34, 475, FALSE, 33214>>, <<600000, 600000, 34, 475, TRUE, 36002>>, <<600000, 625000, 6, 350, TRUE, 2802>>,
      <<600000, 625000, 6, 425, TRUE, 4496>>, <<600000, 625000, 9, 350, TRUE, 4641>>, <<600000, 625000, 9, 425, TRUE, 6963>>,
      <<600000, 625000, 30, 350, TRUE, 14856>>, <<600000, 625000, 30, 425, TRUE, 19810>>, <<600000, 625000, 34, 350, TRUE, 16456>>,
      <<600000, 625000, 34, 425, TRUE, 21769>>, <<600000, 650000, 6, 350, TRUE, 436>>, <<600000, 650000, 6, 425, TRUE, 1106>>,
      <<600000, 650000, 9, 350, TRUE, 1166>>, <<600000, 650000, 9, 425, TRUE, 2429>>, <<600000, 650000, 30, 350, TRUE, 8101>>,
      <<600000, 650000, 30, 425, TRUE, 12319>>, <<600000, 650000, 34, 350, TRUE, 9410>>, <<600000, 650000, 34, 425, TRUE, 14038>>,
      <<600000, 675000, 6, 350, TRUE, 41>>, <<600000, 675000, 6, 425, TRUE, 197>>, <<600000, 675000, 9, 350, TRUE, 213>>,
      <<600000, 675000, 9, 425, TRUE, 692>>, <<600000, 675000, 30, 350, TRUE, 4093>>, <<600000, 675000, 30, 425, TRUE, 7305>>,
      <<600000, 675000, 34, 350, TRUE, 5039>>, <<600000, 675000, 34, 425, TRUE, 8691>>
    }

BSKey(row) == <<row[1], row[2], row[3], row[4], row[5]>>

BSTable == [key \in {BSKey(row) : row \in BSRows} |->
               (CHOOSE row \in BSRows : BSKey(row) = key)[6]]

\* lines 486-505: `price` before the market adjustment
BlackScholes(S, K, days, vol, isCall) == BSTable[<<S, K, days, vol, isCall>>]

\* line 513: 1 + (Math.random() - 0.5) * 0.1, in thousandths
MarketAdjustment(r) == 1000 + (r - 500) \div 10

\* line 518: the minimum price 0.05
MinPrice == 50

\* lines 478-484: T <= 0; a NaN operand makes Math.max NaN
IntrinsicValue(S, K, isCall) ==
    IF isCall THEN MathMax(Sub(S, K), 0) ELSE MathMax(Sub(K, S), 0)

\* the price field of the result.  T <= 0 is false for a NaN timeToExpiry,
\* and then every term of the formula, and Math.max(adjustedPrice, 0.05),
\* is NaN; so it is for an undefined strike.
calculateOptionPrice(S, K, timeToExpiry, vol, isCall, r) ==
    IF Le(timeToExpiry, 0) THEN IntrinsicValue(S, K, isCall)
    ELSE IF ~(IsNum(timeToExpiry) /\ IsNum(S) /\ IsNum(K)) THEN NaN
    ELSE MathMax((BlackScholes(S, K, timeToExpiry, vol, isCall) * MarketAdjustment(r)) \div 1000,
                 MinPrice)

----------------------------------------------------------------------------
(* generateStrategies, lines 55-350.  rnd holds the Math.random() draws of *)
(* one call, in thousandths: rnd.iv for the implied volatility, rnd.sell   *)
(* and rnd.buy for the market adjustment of every sold and every bought    *)
(* leg, rnd.conf[i] for the confidence of strategy i.  Of a Strategy the   *)
(* model keeps id, name, type, confidence, maxProfit, maxLoss,             *)
(* capitalRequired and the legs' type, action, strike and premium;         *)
(* probabilityOfProfit, description, greeks and breakEvenPoints are read   *)
(* by nothing.                                                             *)

\* Math.round(x * 100) of an amount x in mills
RoundCents(x) == MathRoundDiv(x, 10)

\* base + Math.random() * 5, in tenths
Confidence(base, r) == base + (r * 50) \div 1000

Leg(type, action, strike, premium) ==
    [type |-> type, action |-> action, strike |-> strike, premium |-> premium]

\* line 62: 0.35 + Math.random() * 0.15, in thousandths
ImpliedVol(r) == 350 + (r * 150) \div 1000

\* line 77: the Bull Put Spread is skipped when bullPutCredit <= 0.05
BullPutSkipped(bullPutCredit) == Le(bullPutCredit, 50)

\* lines 66-118
BullPutSpread(price, pk, d, iv, rnd) ==
    LET shortPutPrice == calculateOptionPrice(price, pk.bullPutShortStrike, d, iv, FALSE, rnd.sell)
        longPutPrice == calculateOptionPrice(price, pk.bullPutLongStrike, d, iv, FALSE, rnd.buy)
        bullPutCredit == Sub(shortPutPrice, longPutPrice)
        bullPutMaxLoss == Sub(Sub(pk.bullPutShortStrike, pk.bullPutLongStrike), bullPutCredit)
    IN  IF BullPutSkipped(bullPutCredit) THEN <<>>
        ELSE << [ id |-> 1, name |-> "Bull Put Spread", type |-> "bullish",
                  confidence |-> Confidence(725, rnd.conf[1]),
                  maxProfit |-> RoundCents(bullPutCredit),
                  maxLoss |-> Neg(RoundCents(bullPutMaxLoss)),
                  capitalRequired |-> RoundCents(MathAbs(bullPutMaxLoss)),
                  legs |-> << Leg("put", "sell", pk.bullPutShortStrike, shortPutPrice),
                              Leg("put", "buy", pk.bullPutLongStrike, longPutPrice) >> ] >>

\* lines 120-159
IronCondor(price, pk, d, iv, rnd) ==
    LET icCallShort == calculateOptionPrice(price, pk.icCallShortStrike, d, iv, TRUE, rnd.sell)
        icCallLong == calculateOptionPrice(price, pk.icCallLongStrike, d, iv, TRUE, rnd.buy)
        icPutShort == calculateOptionPrice(price, pk.icPutShortStrike, d, iv, FALSE, rnd.sell)
        icPutLong == calculateOptionPrice(price, pk.icPutLongStrike, d, iv, FALSE, rnd.buy)
        icCredit == Add(Sub(icCallShort, icCallLong), Sub(icPutShort, icPutLong))
        icMaxLoss == Sub(MathMax(Sub(pk.icCallLongStrike, pk.icCallShortStrike),
                                 Sub(pk.icPutShortStrike, pk.icPutLongStrike)), icCredit)
    IN  IF Gt(icCredit, 100)
        THEN << [ id |-> 2, name |-> "Iron Condor", type |-> "neutral",
                  confidence |-> Confidence(652, rnd.conf[2]),
                  maxProfit |-> RoundCents(icCredit),
                  maxLoss |-> Neg(RoundCents(icMaxLoss)),
                  capitalRequired |-> RoundCents(MathAbs(icMaxLoss)),
                  legs |-> << Leg("call", "sell", pk.icCallShortStrike, icCallShort),
                              Leg("call", "buy", pk.icCallLongStrike, icCallLong),
                              Leg("put", "sell", pk.icPutShortStrike, icPutShort),
                              Leg("put", "buy", pk.icPutLongStrike, icPutLong) >> ] >>
        ELSE <<>>

\* lines 161-188
CashSecuredPut(price, pk, d, iv, rnd) ==
    LET cspOption == calculateOptionPrice(price, pk.cspStrike, d, iv, FALSE, rnd.sell)
    IN  << [ id |-> 3, name |-> "Cash Secured Put", type |-> "bullish",
             confidence |-> Confidence(698, rnd.conf[3]),
             maxProfit |-> RoundCents(cspOption),
             maxLoss |-> Neg(RoundCents(Sub(pk.cspStrike, cspOption))),
             capitalRequired |-> RoundCents(pk.cspStrike),
             legs |-> << Leg("put", "sell", pk.cspStrike, cspOption) >> ] >>

\* line 203: the sentinel for an unbounded profit
UnboundedProfit == 99999

\* lines 190-219
LongStraddle(price, pk, d, iv, rnd) ==
    LET straddleIV == iv + 50
        callOption == calculateOptionPrice(price, pk.straddleStrike, d, straddleIV, TRUE, rnd.buy)
        putOption == calculateOptionPrice(price, pk.straddleStrike, d, straddleIV, FALSE, rnd.buy)
        straddleCost == Add(callOption, putOption)
    IN  << [ id |-> 4, name |-> "Long Straddle", type |-> "volatility",
             confidence |-> Confidence(585, rnd.conf[4]),
             maxProfit |-> UnboundedProfit,
             maxLoss |-> Neg(RoundCents(straddleCost)),
             capitalRequired |-> RoundCents(straddleCost),
             legs |-> << Leg("call", "buy", pk.straddleStrike, callOption),
                         Leg("put", "buy", pk.straddleStrike, putOption) >> ] >>

\* lines 221-245
CoveredCall(price, pk, d, iv, rnd) ==
    LET ccOption == calculateOptionPrice(price, pk.ccStrike, d, iv, TRUE, rnd.sell)
    IN  << [ id |-> 5, name |-> "Covered Call", type |-> "neutral",
             confidence |-> Confidence(667, rnd.conf[5]),
             maxProfit |-> RoundCents(Add(Sub(pk.ccStrike, price), ccOption)),
             maxLoss |-> Neg(RoundCents(Sub(price, ccOption))),
             capitalRequired |-> RoundCents(price),
             legs |-> << Leg("call", "sell", pk.ccStrike, ccOption) >> ] >>

\* line 257: the Bear Call Spread is included when bearCallCredit > 0.05
BearCallIncluded(bearCallCredit) == Gt(bearCallCredit, 50)

\* lines 247-296
BearCallSpread(price, pk, d, iv, rnd) ==
    LET bearCallShort == calculateOptionPrice(price, pk.bearCallShortStrike, d, iv, TRUE, rnd.sell)
        bearCallLong == calculateOptionPrice(price, pk.bearCallLongStrike, d, iv, TRUE, rnd.buy)
        bearCallCredit == Sub(bearCallShort, bearCallLong)
        bearCallMaxLoss == Sub(Sub(pk.bearCallLongStrike, pk.bearCallShortStrike), bearCallCredit)
    IN  IF BearCallIncluded(bearCallCredit)
        THEN << [ id |-> 6, name |-> "Bear Call Spread", type |-> "bearish",
                  confidence |-> Confidence(635, rnd.conf[6]),
                  maxProfit |-> RoundCents(bearCallCredit),
                  maxLoss |-> Neg(RoundCents(bearCallMaxLoss)),
                  capitalRequired |-> RoundCents(MathAbs(bearCallMaxLoss)),
                  legs |-> << Leg("call", "sell", pk.bearCallShortStrike, bearCallShort),
                              Leg("call", "buy", pk.bearCallLongStrike, bearCallLong) >> ] >>
        ELSE <<>>

\* lines 298-347
BullCallSpread(price, pk, d, iv, rnd) ==
    LET bullCallLong == calculateOptionPrice(price, pk.bullCallLongStrike, d, iv, TRUE, rnd.buy)
        bullCallShort == calculateOptionPrice(price, pk.bullCallShortStrike, d, iv, TRUE, rnd.sell)
        bullCallDebit == Sub(bullCallLong, bullCallShort)
        bullCallMaxProfit == Sub(Sub(pk.bullCallShortStrike, pk.bullCallLongStrike), bullCallDebit)
    IN  IF Gt(bullCallDebit, 0) /\ Gt(bullCallMaxProfit, 100)
        THEN << [ id |-> 7, name |-> "Bull Call Spread", type |-> "bullish",
                  confidence |-> Confidence(682, rnd.conf[7]),
                  maxProfit |-> RoundCents(bullCallMaxProfit),
                  maxLoss |-> Neg(RoundCents(bullCallDebit)),
                  capitalRequired |-> RoundCents(bullCallDebit),
                  legs |-> << Leg("call", "buy", pk.bullCallLongStrike, bullCallLong),
                              Leg("call", "sell", pk.bullCallShortStrike, bullCallShort) >> ] >>
        ELSE <<>>

generateStrategies(price, minDte, maxDte, now, tz, rnd) ==
    LET ks == generateStrikes(price)
        exps == getExpirationDates(minDte, maxDte, now, tz)
        d == primaryDte(exps, now)
        iv == ImpliedVol(rnd.iv)
        pk == SelectStrikes(price, ks)
    IN  BullPutSpread(price, pk, d, iv, rnd) \o IronCondor(price, pk, d, iv, rnd)
        \o CashSecuredPut(price, pk, d, iv, rnd) \o LongStraddle(price, pk, d, iv, rnd)
        \o CoveredCall(price, pk, d, iv, rnd) \o BearCallSpread(price, pk, d, iv, rnd)
        \o BullCallSpread(price, pk, d, iv, rnd)

----------------------------------------------------------------------------
(* handler, lines 546-621.  A request field that is absent is Undefined.   *)
(* The ticker is [tag |-> "undefined"], [tag |-> "string", s |-> text] or  *)
(* [tag |-> "number"] (a truthy value that is no string).                  *)

\* line 558: the destructuring defaults apply to an undefined field
Default(v, d) == IF v = Undefined THEN d ELSE v
DefaultMinDte == 30
DefaultMaxDte == 45
DefaultMaxStrategies == 5

minDteOf(r) == Default(r.minDte, DefaultMinDte)
maxDteOf(r) == Default(r.maxDte, DefaultMaxDte)
maxStrategiesOf(r) == Default(r.maxStrategies, DefaultMaxStrategies)

\* line 547
MethodAllowed(method) == method = "POST"

\* a test that lets the empty string through
TickerUndefined(ticker) == ticker.tag = "undefined"

\* line 560: !ticker
TickerMissing(ticker) ==
    ticker.tag = "undefined" \/ (ticker.tag = "string" /\ ticker.s = "")

\* line 570: String.prototype.toUpperCase on the tickers of the requests
toUpperCase(str) ==
    CASE str = "aapl" -> "AAPL"
      [] str = "Zzzz" -> "ZZZZ"
      [] OTHER -> str

\* the conservative filter with the bar of the moderate one
PassesProfileLowBar(st, riskProfile) ==
    CASE riskProfile = "conservative" -> Ge(st.confidence, 600) /\ st.type # "volatility"
      [] riskProfile = "moderate" -> Ge(st.confidence, 600)
      [] riskProfile = "moderate_aggressive" -> Ge(st.confidence, 550)
      [] OTHER -> TRUE

\* lines 581-594: the filter of a risk profile; any other profile keeps all
PassesProfile(st, riskProfile) ==
    CASE riskProfile = "conservative" -> Ge(st.confidence, 650) /\ st.type # "volatility"
      [] riskProfile = "moderate" -> Ge(st.confidence, 600)
      [] riskProfile = "moderate_aggressive" -> Ge(st.confidence, 550)
      [] OTHER -> TRUE

FilterByProfile(all, riskProfile) ==
    LET Keep(st) == PassesProfile(st, riskProfile) IN SelectSeq(all, Keep)

\* line 598: sort((a, b) => b.confidence - a.confidence), stable
RECURSIVE InsertByConfidence(_, _)
InsertByConfidence(s, e) ==
    IF s = <<>> THEN <<e>>
    ELSE IF e.confidence > Head(s).confidence THEN <<e>> \o s
    ELSE <<Head(s)>> \o InsertByConfidence(Tail(s), e)

RECURSIVE SortByConfidence(_)
SortByConfidence(s) ==
    IF s = <<>> THEN <<>>
    ELSE InsertByConfidence(SortByConfidence(SubSeq(s, 1, Len(s) - 1)), s[Len(s)])

\* line 599: slice(0, n); a negative n counts from the end
SliceTo(s, n) ==
    SubSeq(s, 1, IF n < 0 THEN Max(Len(s) + n, 0) ELSE Min(n, Len(s)))

\* lines 578-599
rankStrategies(all, riskProfile, maxStrategies) ==
    SliceTo(SortByConfidence(FilterByProfile(all, riskProfile)), maxStrategies)

\* the failure responses of lines 548-554, 561-567 and 613-619
FailureResponse(status) ==
    [status |-> status, success |-> FALSE, strategies |-> <<>>, currentPrice |-> 0, ticker |-> ""]

\* lines 604-609
SuccessResponse(list, price, upperTicker) ==
    [status |-> 200, success |-> TRUE, strategies |-> list, currentPrice |-> price,
     ticker |-> upperTicker]

----------------------------------------------------------------------------
(* Values of the variables a specification does not use *)

NoReq == [method |-> "none"]
NoEnv == [apiKey |-> FALSE]
NoCalls == [fetchLiveStockPrice |-> 0, generateStrategies |-> 0]
NoPicks == [straddleStrike |-> Undefined]

----------------------------------------------------------------------------
(* SpecLadder: generateStrikes and the strike selection, for every spot   *)
(* from 0.01 to MaxSpotCents / 100 in steps of 0.01, and the spots of       *)
(* TailSpots, so high that no strike is above currentPrice * 1.02 or 1.07   *)

MaxSpotCents == 65000
TailSpots == {2500000, 8000000}

InitLadder ==
    /\ pc = "call"
    /\ currentPrice \in {10 * c : c \in 1..MaxSpotCents} \cup TailSpots
    /\ req = NoReq /\ env = NoEnv /\ calls = NoCalls
    /\ strikes = <<>> /\ picks = NoPicks
    /\ expirations = <<>> /\ dte = Undefined
    /\ allStrategies = <<>> /\ strategies = <<>> /\ responses = <<>>

\* const strikes = generateStrikes(currentPrice), line 56
CallGenerateStrikes ==
    /\ pc = "call"
    /\ strikes' = generateStrikes(currentPrice)
    /\ pc' = "strikes"
    /\ UNCHANGED <<req, env, currentPrice, picks, expirations, dte,
                   allStrategies, strategies, responses, calls>>

\* the thirteen strikes.find(...) || strikes[i] of generateStrategies
PickStrikes ==
    /\ pc = "strikes"
    /\ picks' = SelectStrikes(currentPrice, strikes)
    /\ pc' = "picked"
    /\ UNCHANGED <<req, env, currentPrice, strikes, expirations, dte,
                   allStrategies, strategies, responses, calls>>

NextLadder == CallGenerateStrikes \/ PickStrikes

SpecLadder == InitLadder /\ [][NextLadder]_vars

----------------------------------------------------------------------------
(* Claims about the strike ladder *)

\* the interval of the claim's price bands, in mills
BandInterval(spot) ==
    IF spot < 50000 THEN 2500
    ELSE IF spot < 200000 THEN 5000
    ELSE IF spot < 500000 THEN 10000
    ELSE 25000

\* C4: for every spot > 0, generateStrikes(spot) is strictly ascending, has at
\* most 13 elements, all > 0, and every two consecutive elements differ by
\* exactly the interval of spot's price band (2.5 below 50, 5 below 200,
\* 10 below 500, 25 otherwise).
C4_StrikeLadder ==
    pc \in {"strikes", "picked"} =>
        /\ Len(strikes) <= 13
        /\ \A i \in 1..Len(strikes) : strikes[i] > 0
        /\ \A i \in 1..(Len(strikes) - 1) :
              /\ strikes[i] < strikes[i + 1]
              /\ strikes[i + 1] - strikes[i] = BandInterval(currentPrice)

\* C4 witness: a ladder cut short by the positivity filter
C4_Witness ==
    /\ pc = "strikes"
    /\ Len(strikes) >= 2 /\ Len(strikes) < 13
    /\ strikes[1] = BandInterval(currentPrice)

Dist(a, b) == IF a >= b THEN a - b ELSE b - a

\* C5: for every spot > 0 the Long Straddle's strike is the ladder strike
\* nearest to spot: it is a ladder element and no ladder strike is strictly
\* closer to spot.
C5_StraddleNearest ==
    pc = "picked" =>
        /\ \E i \in 1..Len(strikes) : strikes[i] = picks.straddleStrike
        /\ \A i \in 1..Len(strikes) :
              Dist(strikes[i], currentPrice) >= Dist(picks.straddleStrike, currentPrice)

IsStrike(x) == \E i \in 1..Len(strikes) : strikes[i] = x

\* C11: for every spot > 0, each of the thirteen strikes generateStrategies
\* selects for the legs of its seven templates is an element of
\* generateStrikes(spot), also when the ladder has fewer than 13 elements;
\* no fallback index gives an undefined strike.
C11_PicksAreStrikes ==
    pc = "picked" =>
        \A f \in DOMAIN picks : picks[f] # Undefined /\ IsStrike(picks[f])

\* C11 witness: a ladder of fewer than 13 strikes, none below 0.93 of spot,
\* so the Bull Put Spread takes both strikes by their fallback indices
C11_Witness ==
    /\ pc = "picked"
    /\ Len(strikes) < 13
    /\ \A i \in 1..Len(strikes) : 100 * strikes[i] >= 93 * currentPrice
    /\ picks.bullPutShortStrike = strikes[3]
    /\ picks.bullPutLongStrike = strikes[2]

\* C12: for every spot > 0 the bought put is strictly below the sold put in
\* the Bull Put Spread and the Iron Condor, the bought call strictly above
\* the sold call in the Bear Call Spread and the Iron Condor, and the sold
\* call strictly above the bought call in the Bull Call Spread.
C12_SpreadOrder ==
    pc = "picked" =>
        /\ Lt(picks.bullPutLongStrike, picks.bullPutShortStrike)
        /\ Lt(picks.icPutLongStrike, picks.icPutShortStrike)
        /\ Gt(picks.icCallLongStrike, picks.icCallShortStrike)
        /\ Gt(picks.bearCallLongStrike, picks.bearCallShortStrike)
        /\ Gt(picks.bullCallShortStrike, picks.bullCallLongStrike)

----------------------------------------------------------------------------
(* SpecCalendar: getExpirationDates and the dte generateStrategies derives, *)
(* for every clock hour of the days 1..MaxDay of 2026, the time zones of   *)
(* TimeZones and the windows over DteBounds                                 *)

MaxDay == 120
ClockHours == {0, 9, 21}
TimeZones == {-5, 0, 2}
DteBounds == {0, 7, 30, 35, 45, 90}

Instants == {d * HoursPerDay + h : d \in 1..MaxDay, h \in ClockHours}

InitCalendar ==
    /\ pc = "call"
    /\ env \in [apiKey : {FALSE}, now : Instants, tz : TimeZones]
    /\ req \in {[method |-> "none", minDte |-> lo, maxDte |-> hi] :
                    lo \in DteBounds, hi \in {b \in DteBounds : b >= 0}}
    /\ req.minDte <= req.maxDte
    /\ currentPrice = 0 /\ calls = NoCalls
    /\ strikes = <<>> /\ picks = NoPicks
    /\ expirations = <<>> /\ dte = Undefined
    /\ allStrategies = <<>> /\ strategies = <<>> /\ responses = <<>>

\* const expirations = getExpirationDates(minDte, maxDte), line 57
CallGetExpirationDates ==
    /\ pc = "call"
    /\ expirations' = getExpirationDates(req.minDte, req.maxDte, env.now, env.tz)
    /\ pc' = "dates"
    /\ UNCHANGED <<req, env, currentPrice, strikes, picks, dte,
                   allStrategies, strategies, responses, calls>>

\* const primaryExpiry = expirations[0]; const dte = ..., lines 58-59
DerivePrimaryDte ==
    /\ pc = "dates"
    /\ dte' = primaryDte(expirations, env.now)
    /\ pc' = "dte"
    /\ UNCHANGED <<req, env, currentPrice, strikes, picks, expirations,
                   allStrategies, strategies, responses, calls>>

NextCalendar == CallGetExpirationDates \/ DerivePrimaryDte

SpecCalendar == InitCalendar /\ [][NextCalendar]_vars

----------------------------------------------------------------------------
(* Claims about the expiration calendar *)

\* C8: for every current instant and every window minDte <= maxDte,
\* getExpirationDates returns at most 3 dates and every returned date
\* string names a Friday.
C8_AllFridays ==
    pc \in {"dates", "dte"} =>
        /\ Len(expirations) <= 3
        /\ \A i \in 1..Len(expirations) : Weekday(DayOfDate(expirations[i])) = 5

\* C9: whenever the calendar is not empty, the dte generateStrategies derives
\* from the first returned date lies in [minDte, maxDte].
C9_PrimaryDteInWindow ==
    (pc = "dte" /\ expirations # <<>>) =>
        (req.minDte <= dte /\ dte <= req.maxDte)

----------------------------------------------------------------------------
(* SpecFetch: fetchLiveStockPrice for the tickers of Tickers, with and     *)
(* without an API key, for every behaviour of the provider                 *)

Tickers == DOMAIN mockPrices \cup {"ZZZZ", "IBM"}
ProviderOutcomes == {"ok", "http_error", "no_results", "network_error"}
ClosePrices == {1000, 150000}
RandomDraws == {0, 250, 689, 999}

InitFetch ==
    /\ pc = "call"
    /\ env \in [apiKey : BOOLEAN, provider : ProviderOutcomes, close : ClosePrices]
    /\ req \in [method : {"none"}, ticker : Tickers]
    /\ currentPrice = Undefined /\ calls = NoCalls
    /\ strikes = <<>> /\ picks = NoPicks
    /\ expirations = <<>> /\ dte = Undefined
    /\ allStrategies = <<>> /\ strategies = <<>> /\ responses = <<>>

\* const currentPrice = await fetchLiveStockPrice(upperTicker), line 573
CallFetchLiveStockPrice ==
    /\ pc = "call"
    /\ \E r \in RandomDraws :
         currentPrice' = fetchLiveStockPrice(req.ticker, env.apiKey, env.provider, env.close, r)
    /\ calls' = [calls EXCEPT !.fetchLiveStockPrice = @ + 1]
    /\ pc' = "fetched"
    /\ UNCHANGED <<req, env, strikes, picks, expirations, dte,
                   allStrategies, strategies, responses>>

NextFetch == CallFetchLiveStockPrice

SpecFetch == InitFetch /\ [][NextFetch]_vars

\* the call took the fallback: no key configured, or the provider call erred
FellBack == ~env.apiKey \/ env.provider # "ok"

\* C6: when no API key is configured or the provider call errs,
\* fetchLiveStockPrice returns the static-table price of a known ticker, and
\* a value in [100, 300) only for a ticker that is not in the table.
C6_FallbackPrice ==
    (pc = "fetched" /\ FellBack) =>
        IF req.ticker \in DOMAIN mockPrices
        THEN currentPrice = mockPrices[req.ticker]
        ELSE currentPrice >= 100000 /\ currentPrice < 300000

----------------------------------------------------------------------------
(* SpecSynth: generateStrategies for the spots of SynthSpots, the clock    *)
(* instants of SynthInstants, the windows of SynthWindows (the last one    *)
(* holds no expiration date) and the random draws of RandomSources         *)

SynthSpots == {1000, 40000, 150000, 600000}
\* Friday 2026-01-02 09:00 UTC and Tuesday 2026-01-06 21:00 UTC
SynthInstants == {33, 141}
SynthZones == {-5, 0}
SynthWindows == {<<30, 45>>, <<7, 90>>, <<0, 6>>}
IvDraws == {0, 500}
NoiseDraws == {0, 500, 990}
ConfPatterns ==
    { [i \in 1..7 |-> 0], [i \in 1..7 |-> 990], [i \in 1..7 |-> IF i % 2 = 0 THEN 300 ELSE 0],
      [i \in 1..7 |-> 510 - 30 * i] }
RandomSources == [iv : IvDraws, sell : NoiseDraws, buy : NoiseDraws, conf : ConfPatterns]

InitSynth ==
    /\ pc = "call"
    /\ currentPrice \in SynthSpots
    /\ env \in [apiKey : {FALSE}, now : SynthInstants, tz : SynthZones]
    /\ \E w \in SynthWindows : req = [method |-> "none", minDte |-> w[1], maxDte |-> w[2]]
    /\ calls = NoCalls
    /\ strikes = <<>> /\ picks = NoPicks
    /\ expirations = <<>> /\ dte = Undefined
    /\ allStrategies = <<>> /\ strategies = <<>> /\ responses = <<>>

\* const allStrategies = generateStrategies(currentPrice, upperTicker, minDte, maxDte), line 576
CallGenerateStrategies ==
    /\ pc = "call"
    /\ \E rnd \in RandomSources :
         allStrategies' = generateStrategies(currentPrice, req.minDte, req.maxDte,
                                             env.now, env.tz, rnd)
    /\ strikes' = generateStrikes(currentPrice)
    /\ picks' = SelectStrikes(currentPrice, strikes')
    /\ expirations' = getExpirationDates(req.minDte, req.maxDte, env.now, env.tz)
    /\ dte' = primaryDte(expirations', env.now)
    /\ calls' = [calls EXCEPT !.generateStrategies = @ + 1]
    /\ pc' = "generated"
    /\ UNCHANGED <<req, env, currentPrice, strategies, responses>>

NextSynth == CallGenerateStrategies

SpecSynth == InitSynth /\ [][NextSynth]_vars

----------------------------------------------------------------------------
(* Claims about the synthesizer *)

Named(n) == {i \in 1..Len(allStrategies) : allStrategies[i].name = n}

\* net credit of a two-leg credit spread: short-leg price minus long-leg price
NetCredit(st) == Sub(st.legs[1].premium, st.legs[2].premium)

\* C1: every Bull Put Spread and every Bear Call Spread in the result of
\* generateStrategies has a net credit that is a number strictly greater
\* than 0, also for a window in which the calendar returns no date.
C1_CreditPositive ==
    pc = "generated" =>
        \A i \in Named("Bull Put Spread") \cup Named("Bear Call Spread") :
            Gt(NetCredit(allStrategies[i]), 0)

\* C7: every strategy in the result of generateStrategies has maxLoss <= 0.
C7_MaxLossNonPositive ==
    pc = "generated" =>
        \A i \in 1..Len(allStrategies) : Le(allStrategies[i].maxLoss, 0)

----------------------------------------------------------------------------
(* SpecFilter: the risk filter, the sort and the slice of the handler, for *)
(* catalogs generateStrategies returns, every profile of Profiles and      *)
(* maxStrategies absent or in -3..MaxCount                                 *)

Profiles == {"conservative", "moderate", "moderate_aggressive", "aggressive", "yolo"}
MaxCount == 8
CountRange == {Undefined} \cup ((0 - 3)..MaxCount)

\* confidence draws: every strategy low or high, and three ties at 72.5
FilterConfPatterns ==
    [1..7 -> {0, 990}] \cup
    { [i \in 1..7 |-> CASE i = 1 -> 0 [] i = 3 -> 540 [] i = 7 -> 860 [] i = 6 -> 0 [] OTHER -> 400] }

FilterCatalogs ==
    { generateStrategies(spot, w[1], w[2], 33, 0, [iv |-> 0, sell |-> 990, buy |-> 0, conf |-> c]) :
        spot \in {1000, 150000}, w \in {<<30, 45>>, <<7, 90>>}, c \in FilterConfPatterns }

InitFilter ==
    /\ pc = "call"
    /\ allStrategies \in FilterCatalogs
    /\ \E profile \in Profiles, n \in CountRange :
         req = [method |-> "none", riskProfile |-> profile, maxStrategies |-> n]
    /\ env = NoEnv /\ currentPrice = 0 /\ calls = NoCalls
    /\ strikes = <<>> /\ picks = NoPicks
    /\ expirations = <<>> /\ dte = Undefined
    /\ strategies = <<>> /\ responses = <<>>

\* lines 578-599
RankStrategies ==
    /\ pc = "call"
    /\ strategies' = rankStrategies(allStrategies, req.riskProfile, maxStrategiesOf(req))
    /\ pc' = "ranked"
    /\ UNCHANGED <<req, env, currentPrice, strikes, picks, expirations, dte,
                   allStrategies, responses, calls>>

NextFilter == RankStrategies

SpecFilter == InitFilter /\ [][NextFilter]_vars

----------------------------------------------------------------------------
(* Claims about the risk filter *)

\* the claim's profile predicate, confidence in tenths
ClaimKeeps(st, profile) ==
    CASE profile = "conservative" -> st.confidence >= 650 /\ st.type # "volatility"
      [] profile = "moderate" -> st.confidence >= 600
      [] profile = "moderate_aggressive" -> st.confidence >= 550
      [] OTHER -> TRUE

\* the catalog entries that satisfy the profile predicate
Eligible == {i \in 1..Len(allStrategies) : ClaimKeeps(allStrategies[i], req.riskProfile)}

\* the requested count: maxStrategies, 5 when absent
Requested == IF req.maxStrategies = Undefined THEN 5 ELSE req.maxStrategies

InResult(st) == \E k \in 1..Len(strategies) : strategies[k] = st

\* C2: for a count maxStrategies >= 0, the returned strategies are catalog
\* entries that satisfy the profile predicate, each at most once, in order of
\* non-increasing confidence; they are the first maxStrategies of that order
\* (as many as are eligible if fewer, and no eligible entry left out has a
\* higher confidence than a returned one); conservative returns no
\* volatility strategy.
C2_FilterSortCut ==
    (pc = "ranked" /\ Requested >= 0) =>
        /\ \A k \in 1..Len(strategies) :
              \E i \in Eligible : allStrategies[i] = strategies[k]
        /\ \A k, l \in 1..Len(strategies) : k < l =>
              /\ strategies[k].id # strategies[l].id
              /\ strategies[k].confidence >= strategies[l].confidence
        /\ Len(strategies) = Min(Requested, Cardinality(Eligible))
        /\ \A i \in Eligible : ~InResult(allStrategies[i]) =>
              \A k \in 1..Len(strategies) :
                  strategies[k].confidence >= allStrategies[i].confidence
        /\ req.riskProfile = "conservative" =>
              \A k \in 1..Len(strategies) : strategies[k].type # "volatility"

\* C2 witness: the conservative filter dropped a volatility strategy and one
\* below 65, and the cut dropped an eligible one
C2_Witness ==
    /\ pc = "ranked" /\ req.riskProfile = "conservative"
    /\ Requested >= 1 /\ Len(strategies) = Requested
    /\ Cardinality(Eligible) > Requested
    /\ \E i \in 1..Len(allStrategies) :
         allStrategies[i].type # "volatility" /\ allStrategies[i].confidence < 650
    /\ \E k \in 1..(Len(strategies) - 1) :
         strategies[k].confidence = strategies[k + 1].confidence

\* C3 as stated: for every integer maxStrategies, negative ones included,
\* the number of strategies is at most maxStrategies.
C3_AtMostRequested ==
    pc = "ranked" => Len(strategies) <= Requested

----------------------------------------------------------------------------
(* Spec: one request through the handler.  The handler suspends at the     *)
(* await of fetchLiveStockPrice (line 573) and at the await of the delay   *)
(* (line 602); everything between two awaits is one step.                  *)

TickerValues ==
    { [tag |-> "undefined"], [tag |-> "number"],
      [tag |-> "string", s |-> ""], [tag |-> "string", s |-> "aapl"],
      [tag |-> "string", s |-> "Zzzz"] }
HandlerProfiles == {"conservative", "moderate", "yolo"}
HandlerCounts == {Undefined, 0, 3, -1}
HandlerWindows == {<<Undefined, Undefined>>, <<0, 6>>}

Requests ==
    { [method |-> m, body |-> b, ticker |-> t, riskProfile |-> p,
       minDte |-> w[1], maxDte |-> w[2], maxStrategies |-> n] :
        m \in {"GET", "POST"}, b \in BOOLEAN, t \in TickerValues,
        p \in HandlerProfiles, w \in HandlerWindows, n \in HandlerCounts }

HandlerDraws == {0, 250}
HandlerSources ==
    [iv : {0}, sell : {0, 990}, buy : {0}, conf : ConfPatterns]

Init ==
    /\ pc = "start"
    /\ req \in Requests
    /\ env \in [apiKey : BOOLEAN, provider : {"ok", "http_error"}, close : {150000},
                 now : {33}, tz : {0}]
    /\ currentPrice = Undefined /\ calls = NoCalls
    /\ strikes = <<>> /\ picks = NoPicks
    /\ expirations = <<>> /\ dte = Undefined
    /\ allStrategies = <<>> /\ strategies = <<>> /\ responses = <<>>

Send(response) == responses' = Append(responses, response)

\* lines 547-555
RejectMethod ==
    /\ pc = "start"
    /\ ~MethodAllowed(req.method)
    /\ Send(FailureResponse(405))
    /\ pc' = "done"
    /\ UNCHANGED <<req, env, currentPrice, strikes, picks, expirations, dte,
                   allStrategies, strategies, calls>>

\* line 558 throws on an undefined req.body; the catch of lines 611-620 answers
ThrowOnBody ==
    /\ pc = "start"
    /\ MethodAllowed(req.method)
    /\ ~req.body
    /\ Send(FailureResponse(500))
    /\ pc' = "done"
    /\ UNCHANGED <<req, env, currentPrice, strikes, picks, expirations, dte,
                   allStrategies, strategies, calls>>

\* lines 560-568
RejectTicker ==
    /\ pc = "start"
    /\ MethodAllowed(req.method)
    /\ req.body
    /\ TickerMissing(req.ticker)
    /\ Send(FailureResponse(400))
    /\ pc' = "done"
    /\ UNCHANGED <<req, env, currentPrice, strikes, picks, expirations, dte,
                   allStrategies, strategies, calls>>

\* line 570 throws on a ticker that has no toUpperCase; the catch answers
ThrowOnTicker ==
    /\ pc = "start"
    /\ MethodAllowed(req.method)
    /\ req.body
    /\ ~TickerMissing(req.ticker)
    /\ req.ticker.tag # "string"
    /\ Send(FailureResponse(500))
    /\ pc' = "done"
    /\ UNCHANGED <<req, env, currentPrice, strikes, picks, expirations, dte,
                   allStrategies, strategies, calls>>

\* lines 570-573: fetchLiveStockPrice is called and awaited
StartFetch ==
    /\ pc = "start"
    /\ MethodAllowed(req.method)
    /\ req.body
    /\ ~TickerMissing(req.ticker)
    /\ req.ticker.tag = "string"
    /\ calls' = [calls EXCEPT !.fetchLiveStockPrice = @ + 1]
    /\ pc' = "fetching"
    /\ UNCHANGED <<req, env, currentPrice, strikes, picks, expirations, dte,
                   allStrategies, strategies, responses>>

\* lines 573-602: the price arrives; the strategies are generated, filtered,
\* sorted and cut; the delay is awaited
FetchReturns ==
    /\ pc = "fetching"
    /\ \E r \in HandlerDraws, rnd \in HandlerSources :
         /\ currentPrice' = fetchLiveStockPrice(toUpperCase(req.ticker.s), env.apiKey,
                                                env.provider, env.close, r)
         /\ allStrategies' = generateStrategies(currentPrice', minDteOf(req), maxDteOf(req),
                                                env.now, env.tz, rnd)
    /\ strikes' = generateStrikes(currentPrice')
    /\ picks' = SelectStrikes(currentPrice', strikes')
    /\ expirations' = getExpirationDates(minDteOf(req), maxDteOf(req), env.now, env.tz)
    /\ dte' = primaryDte(expirations', env.now)
    /\ strategies' = rankStrategies(allStrategies', req.riskProfile, maxStrategiesOf(req))
    /\ calls' = [calls EXCEPT !.generateStrategies = @ + 1]
    /\ pc' = "delay"
    /\ UNCHANGED <<req, env, responses>>

\* lines 604-609
Respond ==
    /\ pc = "delay"
    /\ Send(SuccessResponse(strategies, currentPrice, toUpperCase(req.ticker.s)))
    /\ pc' = "done"
    /\ UNCHANGED <<req, env, currentPrice, strikes, picks, expirations, dte,
                   allStrategies, strategies, calls>>

Next ==
    \/ RejectMethod \/ ThrowOnBody \/ RejectTicker \/ ThrowOnTicker
    \/ StartFetch \/ FetchReturns \/ Respond

Spec == Init /\ [][Next]_vars

----------------------------------------------------------------------------
(* Claims about the handler *)

\* the request is rejected before the core: not a POST, or no ticker
NotAccepted ==
    \/ req.method # "POST"
    \/ ~req.body
    \/ req.ticker.tag = "undefined"
    \/ (req.ticker.tag = "string" /\ req.ticker.s = "")

IsFailure(r) == ~r.success /\ r.strategies = <<>> /\ r.currentPrice = 0

\* C10: the handler sends exactly one response per request; it is either
\* success=true carrying the ranked list, sent after the price fetch and the
\* synthesis both ran, or success=false with no strategies and currentPrice 0;
\* a request that is not a POST or has no ticker gets the failure response
\* with neither fetchLiveStockPrice nor generateStrategies invoked, and an
\* exception after that check gets the failure response too.
C10_OneCompleteResponse ==
    /\ Len(responses) <= 1
    /\ pc = "done" <=> Len(responses) = 1
    /\ \A k \in 1..Len(responses) :
          \/ IsFailure(responses[k])
          \/ /\ responses[k].success
             /\ calls.fetchLiveStockPrice = 1 /\ calls.generateStrategies = 1
             /\ responses[k].strategies = strategies
             /\ responses[k].currentPrice = currentPrice
             /\ Len(responses[k].strategies) <= Len(allStrategies)
    /\ NotAccepted =>
          /\ calls.fetchLiveStockPrice = 0 /\ calls.generateStrategies = 0
          /\ \A k \in 1..Len(responses) : IsFailure(responses[k])
    /\ (~NotAccepted /\ req.ticker.tag # "string") =>
          /\ calls.generateStrategies = 0
          /\ \A k \in 1..Len(responses) : IsFailure(responses[k])

\* C10 witness: a request answered with a ranked list after both calls
C10_Witness ==
    /\ pc = "done" /\ Len(responses) = 1
    /\ responses[1].success /\ responses[1].status = 200
    /\ Len(responses[1].strategies) = 3
    /\ calls.fetchLiveStockPrice = 1 /\ calls.generateStrategies = 1

====
